---- MODULE Spec2Model ----
(***************************************************************************)
(* A model of the Joy-Con 2 Web Bluetooth demo (src/src/App.vue and        *)
(* generateLEDPattern): the per-side decoded state, the connect()          *)
(* coroutine with one step per await, the characteristicvaluechanged       *)
(* handler, and the LED pattern generator.                                 *)
(***************************************************************************)
EXTENDS Integers, Sequences, FiniteSets, TLC

VARIABLES
    mouseState,          \* reactive({L, R}): rawPosition and accumulatedPosition
    pressed,             \* reactive({L, R}): the button byte of the last report
    errorRef,            \* shallowRef: "null" or the error of a connect attempt
    ledPatternGenerator, \* the suspended generator object
    calls,               \* the connect() invocations, each with its position
    ledValues,           \* history: the values next() has returned, in order
    processed,           \* history: per side, the raw pairs decoded since the reset
    lastEvent,           \* history: the last notification handled and its outcome
    lastWrite,           \* history: the bytes of the last writeValueWithoutResponse
    unit                 \* the inputs and result of one calculateDeltaWithWraparound call

vars == <<mouseState, pressed, errorRef, ledPatternGenerator, calls, ledValues,
          processed, lastEvent, lastWrite, unit>>

----------------------------------------------------------------------------
(* Bounds of the model *)

\* connect() invocations in one run
MaxCalls == 2
\* reports decoded per run between resets, over both sides
MaxReports == 2
\* next() calls on one generator under UnitSpec
MaxNext == 17

----------------------------------------------------------------------------
(* Program constants and data *)

POSITION_WRAPAROUND_THRESHOLD == 15000

ControllerType == {"L", "R"}

Other(type) == IF type = "L" THEN "R" ELSE "L"

controllerByteOffsetMap == [L |-> 6, R |-> 4]

createMouseState ==
    [rawPosition |-> [x |-> 0, y |-> 0],
     accumulatedPosition |-> [x |-> 0, y |-> 0]]

----------------------------------------------------------------------------
(* calculateDeltaWithWraparound *)

calculateDeltaNoNegativeBranch(current, previous) ==
    LET delta == current - previous
    IN  IF delta > POSITION_WRAPAROUND_THRESHOLD THEN delta - 65536 ELSE delta

calculateDeltaInclusive(current, previous) ==
    LET delta == current - previous
    IN  IF delta >= POSITION_WRAPAROUND_THRESHOLD THEN delta - 65536
        ELSE IF delta <= -POSITION_WRAPAROUND_THRESHOLD THEN delta + 65536
        ELSE delta

calculateDeltaSwappedCorrections(current, previous) ==
    LET delta == current - previous
    IN  IF delta > POSITION_WRAPAROUND_THRESHOLD THEN delta + 65536
        ELSE IF delta < -POSITION_WRAPAROUND_THRESHOLD THEN delta - 65536
        ELSE delta

calculateDeltaModulus65535(current, previous) ==
    LET delta == current - previous
    IN  IF delta > POSITION_WRAPAROUND_THRESHOLD THEN delta - 65535
        ELSE IF delta < -POSITION_WRAPAROUND_THRESHOLD THEN delta + 65535
        ELSE delta

calculateDeltaWithWraparound(current, previous) ==
    LET delta == current - previous
    IN  IF delta > POSITION_WRAPAROUND_THRESHOLD THEN delta - 65536
        ELSE IF delta < -POSITION_WRAPAROUND_THRESHOLD THEN delta + 65536
        ELSE delta

----------------------------------------------------------------------------
(* DataView reads: a buffer is a sequence of bytes, byte k at index k+1.   *)
(* A read past the end throws a RangeError.                                *)

InRange(dataView, byteOffset, size) == byteOffset + size <= Len(dataView)

\* getUint16(byteOffset, true): little endian
getUint16(dataView, byteOffset) ==
    dataView[byteOffset + 1] + 256 * dataView[byteOffset + 2]

getUint8(dataView, byteOffset) == dataView[byteOffset + 1]

----------------------------------------------------------------------------
(* processMouseInputReport: both counters are read before anything is      *)
(* written. The result is the side's new state and whether a read threw.   *)

processMouseXBeforeReadingY(ms, dataView, type) ==
    IF ~InRange(dataView, 16, 2) THEN [threw |-> TRUE, mouseState |-> ms]
    ELSE
      LET currentRawX == getUint16(dataView, 16)
          deltaX == calculateDeltaWithWraparound(currentRawX, ms[type].rawPosition.x)
          ms1 == [ms EXCEPT ![type].rawPosition.x = currentRawX,
                            ![type].accumulatedPosition.x = @ + deltaX]
      IN  IF ~InRange(dataView, 18, 2) THEN [threw |-> TRUE, mouseState |-> ms1]
          ELSE
            LET currentRawY == getUint16(dataView, 18)
                deltaY == calculateDeltaWithWraparound(currentRawY, ms[type].rawPosition.y)
            IN  [threw |-> FALSE,
                 mouseState |-> [ms1 EXCEPT ![type].rawPosition.y = currentRawY,
                                            ![type].accumulatedPosition.y = @ + deltaY]]

processMouseStoreBeforeDelta(ms, dataView, type) ==
    IF ~InRange(dataView, 16, 2) \/ ~InRange(dataView, 18, 2)
    THEN [threw |-> TRUE, mouseState |-> ms]
    ELSE
      LET currentRawX == getUint16(dataView, 16)
          currentRawY == getUint16(dataView, 18)
          ms1 == [ms EXCEPT ![type].rawPosition.x = currentRawX,
                            ![type].rawPosition.y = currentRawY]
          deltaX == calculateDeltaWithWraparound(currentRawX, ms1[type].rawPosition.x)
          deltaY == calculateDeltaWithWraparound(currentRawY, ms1[type].rawPosition.y)
      IN  [threw |-> FALSE,
           mouseState |-> [ms1 EXCEPT ![type].accumulatedPosition.x = @ + deltaX,
                                      ![type].accumulatedPosition.y = @ + deltaY]]

processMouseInputReport(ms, dataView, type) ==
    IF ~InRange(dataView, 16, 2) \/ ~InRange(dataView, 18, 2)
    THEN [threw |-> TRUE, mouseState |-> ms]
    ELSE
      LET currentRawX == getUint16(dataView, 16)
          currentRawY == getUint16(dataView, 18)
          deltaX == calculateDeltaWithWraparound(currentRawX, ms[type].rawPosition.x)
          deltaY == calculateDeltaWithWraparound(currentRawY, ms[type].rawPosition.y)
      IN  [threw |-> FALSE,
           mouseState |-> [ms EXCEPT ![type].rawPosition.x = currentRawX,
                                     ![type].rawPosition.y = currentRawY,
                                     ![type].accumulatedPosition.x = @ + deltaX,
                                     ![type].accumulatedPosition.y = @ + deltaY]]

----------------------------------------------------------------------------
(* The characteristicvaluechanged listener of connect(type): the motion    *)
(* counters first, then the button byte. An exception ends the listener    *)
(* call where it is thrown; what was written before it stays written.      *)

onValueChangedWritesBothSides(ms, pr, dataView, type) ==
    LET r == processMouseInputReport(ms, dataView, type)
    IN  IF r.threw \/ ~InRange(dataView, controllerByteOffsetMap[type], 1)
        THEN [threw |-> TRUE, mouseState |-> r.mouseState, pressed |-> pr]
        ELSE [threw |-> FALSE, mouseState |-> r.mouseState,
              pressed |-> [t \in ControllerType |->
                             getUint8(dataView, controllerByteOffsetMap[type])]]

onValueChangedFixedOffset(ms, pr, dataView, type) ==
    LET r == processMouseInputReport(ms, dataView, type)
    IN  IF r.threw \/ ~InRange(dataView, controllerByteOffsetMap["R"], 1)
        THEN [threw |-> TRUE, mouseState |-> r.mouseState, pressed |-> pr]
        ELSE [threw |-> FALSE, mouseState |-> r.mouseState,
              pressed |-> [pr EXCEPT ![type] =
                             getUint8(dataView, controllerByteOffsetMap["R"])]]

onCharacteristicValueChanged(ms, pr, dataView, type) ==
    LET r == processMouseInputReport(ms, dataView, type)
    IN  IF r.threw
        THEN [threw |-> TRUE, mouseState |-> r.mouseState, pressed |-> pr]
        ELSE IF ~InRange(dataView, controllerByteOffsetMap[type], 1)
        THEN [threw |-> TRUE, mouseState |-> r.mouseState, pressed |-> pr]
        ELSE [threw |-> FALSE, mouseState |-> r.mouseState,
              pressed |-> [pr EXCEPT ![type] =
                             getUint8(dataView, controllerByteOffsetMap[type])]]

----------------------------------------------------------------------------
(* generateLEDPattern: the generator object is the number of the yield it  *)
(* is suspended at (0 before the first next()) and whether it has          *)
(* returned. next() resumes it up to the following yield.                  *)

LEDPattern == <<1, 3, 7, 15, 9, 5, 13, 6>>

generateLEDPattern == [at |-> 0, done |-> FALSE]

generatorNextNoLoop(gen) ==
    IF gen.done \/ gen.at = Len(LEDPattern)
    THEN [gen |-> [gen EXCEPT !.done = TRUE], value |-> 0, done |-> TRUE]
    ELSE [gen |-> [gen EXCEPT !.at = @ + 1], value |-> LEDPattern[gen.at + 1],
          done |-> FALSE]

generatorNext(gen) ==
    IF gen.done
    THEN [gen |-> gen, value |-> 0, done |-> TRUE]
    ELSE LET to == IF gen.at = Len(LEDPattern) THEN 1 ELSE gen.at + 1
         IN  [gen |-> [gen EXCEPT !.at = to], value |-> LEDPattern[to], done |-> FALSE]

----------------------------------------------------------------------------
(* Inbound reports: the buffers the transport may deliver. A payload is    *)
(* laid out as the device does (button bytes at 4 and 6, the counters at   *)
(* 16..19, little endian) and cut to the buffer's length.                  *)

PayloadA == [b4 |-> 11, b6 |-> 4, x |-> 5, y |-> 65530]

PayloadB == [b4 |-> 4, b6 |-> 11, x |-> 65530, y |-> 5]

ReportBuffer(len, p) ==
    [k \in 1..len |->
        CASE k - 1 = 4 -> p.b4
          [] k - 1 = 6 -> p.b6
          [] k - 1 = 16 -> p.x % 256
          [] k - 1 = 17 -> p.x \div 256
          [] k - 1 = 18 -> p.y % 256
          [] k - 1 = 19 -> p.y \div 256
          [] OTHER -> 0]

\* The full reports, and two cut short: one before the counters, one
\* in the middle of them
Reports ==
    {ReportBuffer(20, PayloadA), ReportBuffer(20, PayloadB),
     ReportBuffer(7, PayloadA), ReportBuffer(19, PayloadB)}

NoEvent == [type |-> "none", dataView |-> <<>>, threw |-> FALSE]

----------------------------------------------------------------------------
(* connect(type): one position per await. A call is suspended at the       *)
(* operation it awaits, or has ended: "streaming" (its listener is         *)
(* registered) or "failed" (its catch block ran). The calls of a side at   *)
(* one position are alike, so the state counts them: calls[type][at].      *)

\* The awaited operations in program order
ConnectSteps ==
    <<"requestDevice", "gattConnect", "getPrimaryService", "getCharacteristicWrite",
      "writeLED", "sleep1", "writeIndicatorA", "sleep2", "writeIndicatorB",
      "getCharacteristicInput", "startNotifications">>

Positions == {ConnectSteps[k] : k \in 1..Len(ConnectSteps)} \cup {"streaming", "failed"}

StepIndex(at) == CHOOSE k \in 1..Len(ConnectSteps) : ConnectSteps[k] = at

\* setTimeout never rejects; every transport promise may
Sleeps == {"sleep1", "sleep2"}

RECURSIVE CountAt(_, _)
CountAt(type, ats) ==
    IF ats = {} THEN 0
    ELSE LET at == CHOOSE a \in ats : TRUE
         IN  calls[type][at] + CountAt(type, ats \ {at})

\* connect() invocations so far
NumCalls == CountAt("L", Positions) + CountAt("R", Positions)

\* One call of the side goes from one position to another
Move(type, from, to) == [calls EXCEPT ![type][from] = @ - 1, ![type][to] = @ + 1]

\* What requestDevice() may reject with: the chooser was cancelled
\* (a NotFoundError DOMException; the number 2 in Bluefy)
RequestDeviceRejections == {"NotFoundError", "2"}

requestDeviceCatchSwallowsCancel(error, isBluefy) ==
    IF isBluefy /\ error = "2" THEN "null" ELSE error

\* .catch((error) => ...) on requestDevice; isBluefy is read from the user
\* agent, which the model leaves open at each rejection
requestDeviceCatch(error, isBluefy) ==
    IF isBluefy /\ error = "2"
    THEN "Error: User cancelled the requestDevice() chooser in Bluefy app."
    ELSE error

\* computed errorMessage: null for a falsy errorRef, the message of an
\* Error, a fixed text for any other value. The errors the model knows are
\* all truthy; a DOMException is an Error, its message stood for by its name
errorMessage(ref) ==
    CASE ref = "null" -> "null"
      [] ref = "2" -> "An unknown error occurred"
      [] ref = "Error: User cancelled the requestDevice() chooser in Bluefy app."
            -> "User cancelled the requestDevice() chooser in Bluefy app."
      [] ref = "Error: Device does not support GATT" -> "Device does not support GATT"
      [] OTHER -> ref

\* connect() is called: it runs up to its first await
Connect(type) ==
    /\ NumCalls < MaxCalls
    /\ calls' = [calls EXCEPT ![type]["requestDevice"] = @ + 1]
    /\ UNCHANGED <<mouseState, pressed, errorRef, ledPatternGenerator,
                   ledValues, processed, lastEvent, lastWrite, unit>>

catchBlockResetsMouseState(type, at, error) ==
    /\ errorRef' = error
    /\ calls' = Move(type, at, "failed")
    /\ mouseState' = [mouseState EXCEPT ![type] = createMouseState]
    /\ UNCHANGED pressed

catchBlockOnlyLogs(type, at, error) ==
    /\ calls' = Move(type, at, "failed")
    /\ UNCHANGED <<mouseState, pressed, errorRef>>

\* catch (error) { errorRef.value = error }
catchBlock(type, at, error) ==
    /\ errorRef' = error
    /\ calls' = Move(type, at, "failed")
    /\ UNCHANGED <<mouseState, pressed>>

RequestDeviceRejected(type, error, isBluefy) ==
    /\ calls[type]["requestDevice"] > 0
    /\ catchBlock(type, "requestDevice", requestDeviceCatch(error, isBluefy))
    /\ UNCHANGED <<ledPatternGenerator, ledValues, processed, lastEvent, lastWrite, unit>>

\* requestDevice resolved: without device.gatt the call throws, with it
\* device.gatt.connect() is awaited
RequestDeviceResolved(type, hasGatt) ==
    /\ calls[type]["requestDevice"] > 0
    /\ IF hasGatt
       THEN /\ calls' = Move(type, "requestDevice", "gattConnect")
            /\ UNCHANGED <<mouseState, pressed, errorRef>>
       ELSE catchBlock(type, "requestDevice", "Error: Device does not support GATT")
    /\ UNCHANGED <<ledPatternGenerator, ledValues, processed, lastEvent, lastWrite, unit>>

\* The outbound commands (0x91 = 145, 0x0c = 12, 0xff = 255)
LEDCommand(value) == <<9, 145, 1, 7, 0, 8, 0, 0, value, 0, 0, 0, 0, 0, 0, 0>>

IndicatorCommandsSwapped(at) ==
    IF at = "writeIndicatorA"
    THEN <<12, 145, 1, 4, 0, 4, 0, 0, 255, 0, 0, 0>>
    ELSE <<12, 145, 1, 2, 0, 4, 0, 0, 255, 0, 0, 0>>

\* The command whose write a call at writeIndicatorA / writeIndicatorB awaits
IndicatorCommand(at) ==
    IF at = "writeIndicatorA"
    THEN <<12, 145, 1, 2, 0, 4, 0, 0, 255, 0, 0, 0>>
    ELSE <<12, 145, 1, 4, 0, 4, 0, 0, 255, 0, 0, 0>>

\* An await that only leads to the next one
PlainAwaits ==
    {"gattConnect", "getPrimaryService", "writeLED", "sleep1", "writeIndicatorA",
     "sleep2", "writeIndicatorB", "getCharacteristicInput"}

AwaitResolvedSleepNeverEnds(type, at) ==
    /\ at \in PlainAwaits \ Sleeps
    /\ calls[type][at] > 0
    /\ calls' = Move(type, at, ConnectSteps[StepIndex(at) + 1])
    /\ UNCHANGED <<mouseState, pressed, errorRef, ledPatternGenerator,
                   ledValues, processed, lastEvent, lastWrite, unit>>

\* The awaited promise resolves and the call runs to its next await, which
\* after a sleep is the write of an indicator command
AwaitResolved(type, at) ==
    /\ at \in PlainAwaits
    /\ calls[type][at] > 0
    /\ LET next == ConnectSteps[StepIndex(at) + 1]
       IN  /\ calls' = Move(type, at, next)
           /\ lastWrite' = IF at \in Sleeps THEN IndicatorCommand(next) ELSE lastWrite
    /\ UNCHANGED <<mouseState, pressed, errorRef, ledPatternGenerator,
                   ledValues, processed, lastEvent, unit>>

WriteLEDCommandWithoutNext(type) ==
    /\ calls[type]["getCharacteristicWrite"] > 0
    /\ lastWrite' = LEDCommand(LEDPattern[1])
    /\ calls' = Move(type, "getCharacteristicWrite", "writeLED")
    /\ UNCHANGED <<mouseState, pressed, errorRef, ledPatternGenerator, ledValues,
                   processed, lastEvent, unit>>

WriteLEDCommandReadsBeforeAdvance(type) ==
    /\ calls[type]["getCharacteristicWrite"] > 0
    /\ LET n == generatorNext(ledPatternGenerator)
           stale == IF Len(ledValues) = 0 THEN n.value ELSE ledValues[Len(ledValues)]
       IN  /\ ledPatternGenerator' = n.gen
           /\ ledValues' = Append(ledValues, stale)
           /\ lastWrite' = LEDCommand(stale)
    /\ calls' = Move(type, "getCharacteristicWrite", "writeLED")
    /\ UNCHANGED <<mouseState, pressed, errorRef, processed, lastEvent, unit>>

\* The write characteristic is there: the LED command is built, which calls
\* ledPatternGenerator.next(), and its write is awaited
WriteLEDCommand(type) ==
    /\ calls[type]["getCharacteristicWrite"] > 0
    /\ LET n == generatorNext(ledPatternGenerator)
       IN  /\ ledPatternGenerator' = n.gen
           /\ ledValues' = Append(ledValues, n.value)
           /\ lastWrite' = LEDCommand(n.value)
    /\ calls' = Move(type, "getCharacteristicWrite", "writeLED")
    /\ UNCHANGED <<mouseState, pressed, errorRef, processed, lastEvent, unit>>

\* A transport promise rejects
AwaitRejected(type, at) ==
    /\ at \in Positions \ (Sleeps \cup {"requestDevice", "streaming", "failed"})
    /\ calls[type][at] > 0
    /\ catchBlock(type, at, "NetworkError")
    /\ UNCHANGED <<ledPatternGenerator, ledValues, processed, lastEvent, lastWrite, unit>>

StartStreamingKeepsAccumulated(type) ==
    /\ calls[type]["startNotifications"] > 0
    /\ mouseState' = [mouseState EXCEPT ![type].rawPosition = [x |-> 0, y |-> 0]]
    /\ calls' = Move(type, "startNotifications", "streaming")
    /\ errorRef' = "null"
    /\ processed' = [processed EXCEPT ![type] = <<>>]
    /\ UNCHANGED <<pressed, ledPatternGenerator, ledValues, lastEvent, lastWrite, unit>>

StartStreamingKeepsRaw(type) ==
    /\ calls[type]["startNotifications"] > 0
    /\ mouseState' = [mouseState EXCEPT ![type].accumulatedPosition = [x |-> 0, y |-> 0]]
    /\ calls' = Move(type, "startNotifications", "streaming")
    /\ errorRef' = "null"
    /\ processed' = [processed EXCEPT ![type] = <<>>]
    /\ UNCHANGED <<pressed, ledPatternGenerator, ledValues, lastEvent, lastWrite, unit>>

StartStreamingKeepsError(type) ==
    /\ calls[type]["startNotifications"] > 0
    /\ mouseState' = [mouseState EXCEPT ![type] = createMouseState]
    /\ calls' = Move(type, "startNotifications", "streaming")
    /\ processed' = [processed EXCEPT ![type] = <<>>]
    /\ UNCHANGED <<pressed, errorRef, ledPatternGenerator, ledValues, lastEvent,
                   lastWrite, unit>>

StartStreamingResetsNothing(type) ==
    /\ calls[type]["startNotifications"] > 0
    /\ UNCHANGED mouseState
    /\ calls' = Move(type, "startNotifications", "streaming")
    /\ errorRef' = "null"
    /\ processed' = [processed EXCEPT ![type] = <<>>]
    /\ UNCHANGED <<pressed, ledPatternGenerator, ledValues, lastEvent, lastWrite, unit>>

\* startNotifications() resolved: the side's mouse state is replaced, the
\* listener registered and the error cleared, with no await in between
StartStreaming(type) ==
    /\ calls[type]["startNotifications"] > 0
    /\ mouseState' = [mouseState EXCEPT ![type] = createMouseState]
    /\ calls' = Move(type, "startNotifications", "streaming")
    /\ errorRef' = "null"
    /\ processed' = [processed EXCEPT ![type] = <<>>]
    /\ UNCHANGED <<pressed, ledPatternGenerator, ledValues, lastEvent, lastWrite, unit>>

----------------------------------------------------------------------------
(* A notification arrives on a characteristic a connect(type) call has      *)
(* registered a listener on; the listener runs to its end or to its first  *)
(* exception.                                                              *)

ReportsDecoded == Len(processed["L"]) + Len(processed["R"])

Notify(type, dataView) ==
    /\ calls[type]["streaming"] > 0
    /\ LET r == onCharacteristicValueChanged(mouseState, pressed, dataView, type)
       IN  /\ r.threw \/ ReportsDecoded < MaxReports
           /\ mouseState' = r.mouseState
           /\ pressed' = r.pressed
           /\ lastEvent' = [type |-> type, dataView |-> dataView, threw |-> r.threw]
           /\ processed' =
                IF InRange(dataView, 16, 2) /\ InRange(dataView, 18, 2)
                THEN [processed EXCEPT ![type] =
                        Append(@, <<getUint16(dataView, 16), getUint16(dataView, 18)>>)]
                ELSE processed
    /\ UNCHANGED <<errorRef, ledPatternGenerator, calls, ledValues, lastWrite, unit>>

----------------------------------------------------------------------------
(* The application *)

NoCalls == [type \in ControllerType |-> [at \in Positions |-> 0]]

NoUnit == [current |-> 0, previous |-> 0, delta |-> 0, applied |-> FALSE]

Init ==
    /\ mouseState = [L |-> createMouseState, R |-> createMouseState]
    /\ pressed = [L |-> 0, R |-> 0]
    /\ errorRef = "null"
    /\ ledPatternGenerator = generateLEDPattern
    /\ calls = NoCalls
    /\ ledValues = <<>>
    /\ processed = [L |-> <<>>, R |-> <<>>]
    /\ lastEvent = NoEvent
    /\ lastWrite = <<>>
    /\ unit = NoUnit

Next ==
    \E type \in ControllerType :
        \/ Connect(type)
        \/ \E error \in RequestDeviceRejections, isBluefy \in BOOLEAN :
             RequestDeviceRejected(type, error, isBluefy)
        \/ \E hasGatt \in BOOLEAN : RequestDeviceResolved(type, hasGatt)
        \/ \E at \in Positions : AwaitResolved(type, at)
        \/ WriteLEDCommand(type)
        \/ \E at \in Positions : AwaitRejected(type, at)
        \/ StartStreaming(type)
        \/ \E dataView \in Reports : Notify(type, dataView)

Spec == Init /\ [][Next]_vars

----------------------------------------------------------------------------
(* Scheduling. A suspended call runs on when the promise it awaits         *)
(* settles: the event loop runs every continuation that is ready, and      *)
(* setTimeout always fires. Whether a transport promise ever settles is    *)
(* up to the browser and the device; FairSpec takes every one to settle    *)
(* except device.gatt.connect() of the left side, which may stay pending   *)
(* for ever, as connect() sets no timeout on it.                           *)

HungOperation == <<"L", "gattConnect">>

\* The promise a call of connect(type) awaits at a step settles
Settles(type, at) ==
    \/ /\ at = "requestDevice"
       /\ \/ \E error \in RequestDeviceRejections, isBluefy \in BOOLEAN :
                RequestDeviceRejected(type, error, isBluefy)
          \/ \E hasGatt \in BOOLEAN : RequestDeviceResolved(type, hasGatt)
    \/ AwaitResolved(type, at)
    \/ at = "getCharacteristicWrite" /\ WriteLEDCommand(type)
    \/ AwaitRejected(type, at)
    \/ at = "startNotifications" /\ StartStreaming(type)

TransportSettles ==
    \E type \in ControllerType, k \in 1..Len(ConnectSteps) :
        /\ <<type, ConnectSteps[k]>> # HungOperation
        /\ Settles(type, ConnectSteps[k])

FairSpec == Spec /\ WF_vars(TransportSettles)

----------------------------------------------------------------------------
(* The pure parts on their own: calculateDeltaWithWraparound applied to a  *)
(* pair of 16-bit values, and next() called over and over on one           *)
(* generator.                                                              *)

\* 16-bit values: those around the threshold, the midpoint and both ends,
\* and sixteen spread evenly over the range
DeltaInputs ==
    {0, 5, 11, 14999, 15000, 15001, 32767, 32768, 50535, 50536, 65530, 65535}
        \cup {k * 4369 : k \in 0..15}

ApplyDelta ==
    /\ ~unit.applied
    /\ unit' = [unit EXCEPT
                  !.delta = calculateDeltaWithWraparound(unit.current, unit.previous),
                  !.applied = TRUE]
    /\ UNCHANGED <<mouseState, pressed, errorRef, ledPatternGenerator, calls,
                   ledValues, processed, lastEvent, lastWrite>>

CallNext ==
    /\ Len(ledValues) < MaxNext
    /\ LET n == generatorNext(ledPatternGenerator)
       IN  /\ ledPatternGenerator' = n.gen
           /\ ledValues' = Append(ledValues, n.value)
    /\ UNCHANGED <<mouseState, pressed, errorRef, calls, processed, lastEvent, lastWrite, unit>>

UnitInit ==
    /\ mouseState = [L |-> createMouseState, R |-> createMouseState]
    /\ pressed = [L |-> 0, R |-> 0]
    /\ errorRef = "null"
    /\ ledPatternGenerator = generateLEDPattern
    /\ calls = NoCalls
    /\ ledValues = <<>>
    /\ processed = [L |-> <<>>, R |-> <<>>]
    /\ lastEvent = NoEvent
    /\ lastWrite = <<>>
    /\ unit \in {[current |-> c, previous |-> p, delta |-> 0, applied |-> FALSE] :
                   c \in DeltaInputs, p \in DeltaInputs}

UnitNext == ApplyDelta \/ CallNext

UnitSpec == UnitInit /\ [][UnitNext]_vars

----------------------------------------------------------------------------
(* Properties of calculateDeltaWithWraparound, under UnitSpec *)

Abs(n) == IF n < 0 THEN -n ELSE n

\* C1: for 16-bit values with |current - previous| <= 15000 the returned
\* delta is current - previous, with no correction.
C1_DeltaExactWithinThreshold ==
    (unit.applied /\ Abs(unit.current - unit.previous) <= 15000)
        => unit.delta = unit.current - unit.previous

C1_Witness ==
    /\ unit.applied
    /\ unit.current - unit.previous = 15000
    /\ unit.delta = 15000

\* C2: a naive difference above 15000 is returned less 65536, one below
\* -15000 is returned plus 65536; (5, 65530) gives +11 and (65530, 5) gives -11.
C2_DeltaCorrection ==
    unit.applied =>
        /\ unit.current - unit.previous > 15000
             => unit.delta = unit.current - unit.previous - 65536
        /\ unit.current - unit.previous < -15000
             => unit.delta = unit.current - unit.previous + 65536
        /\ (unit.current = 5 /\ unit.previous = 65530) => unit.delta = 11
        /\ (unit.current = 65530 /\ unit.previous = 5) => unit.delta = -11

C2_Witness ==
    /\ unit.applied
    /\ unit.current = 5
    /\ unit.previous = 65530
    /\ unit.delta = 11

\* C7: the k-th next() on one generator returns element (k-1) mod 8 of
\* [1,3,7,15,9,5,13,6], and the generator is never done.
C7_LEDCycle ==
    /\ \A k \in 1..Len(ledValues) :
          ledValues[k] = <<1, 3, 7, 15, 9, 5, 13, 6>>[((k - 1) % 8) + 1]
    /\ ~ledPatternGenerator.done

C7_Witness ==
    /\ Len(ledValues) >= 9
    /\ SubSeq(ledValues, 1, 9) = <<1, 3, 7, 15, 9, 5, 13, 6, 1>>

----------------------------------------------------------------------------
(* Properties of the decoded state, under Spec *)

Zero == [x |-> 0, y |-> 0]

\* The first components (axis 1) or the second (axis 2) of the raw pairs
\* decoded since the reset, after the reset baseline 0
RawTrack(type, axis) ==
    <<0>> \o [k \in 1..Len(processed[type]) |-> processed[type][k][axis]]

RECURSIVE SumOfDeltas(_, _)
SumOfDeltas(track, n) ==
    IF n <= 1 THEN 0
    ELSE SumOfDeltas(track, n - 1)
           + calculateDeltaWithWraparound(track[n], track[n - 1])

\* C3: per side and axis, accumulatedPosition is the sum of the corrected
\* deltas of the reports processed since the side's last reset, each taken
\* against the raw value of the report before it and the first against the
\* reset baseline; rawPosition is the raw pair of the latest of them.
C3_AccumulatedIsSumOfDeltas ==
    \A type \in ControllerType :
        LET xs == RawTrack(type, 1)
            ys == RawTrack(type, 2)
        IN  /\ mouseState[type].accumulatedPosition.x = SumOfDeltas(xs, Len(xs))
            /\ mouseState[type].accumulatedPosition.y = SumOfDeltas(ys, Len(ys))
            /\ mouseState[type].rawPosition.x = xs[Len(xs)]
            /\ mouseState[type].rawPosition.y = ys[Len(ys)]

C3_Witness ==
    /\ processed["L"] = <<<<5, 65530>>, <<65530, 5>>>>
    /\ mouseState["L"].accumulatedPosition = [x |-> -6, y |-> 5]
    /\ mouseState["L"].rawPosition = [x |-> 65530, y |-> 5]

\* A call of the side goes from awaiting startNotifications() to streaming
Succeeds(type) == calls' = Move(type, "startNotifications", "streaming")

\* A call of the side takes a step of connect() other than the one into
\* streaming: it is made, resumes at an await, or fails
StepsWithoutStreaming(type) ==
    /\ calls'[type] # calls[type]
    /\ calls'[type]["streaming"] = calls[type]["streaming"]

\* C4: when a connect(side) call reaches streaming, the side's
\* accumulatedPosition is (0,0) as the listener is registered, whatever it was.
C4_ReconnectZeroesAccumulated ==
    [][\A type \in ControllerType :
          Succeeds(type) => mouseState'[type].accumulatedPosition = Zero]_vars

\* A side streams again, zeroed, after a report of an earlier session was decoded
C4_Witness ==
    \E type \in ControllerType :
        /\ calls[type]["streaming"] >= 2
        /\ lastEvent.type = type
        /\ ~lastEvent.threw
        /\ processed[type] = <<>>
        /\ mouseState[type].accumulatedPosition = Zero

\* C5 as stated: the step into streaming resets pressed[side] to 0 and
\* accumulatedPosition to (0,0).
C5_AsStated ==
    [][\A type \in ControllerType :
          Succeeds(type) =>
              /\ pressed'[type] = 0
              /\ mouseState'[type].accumulatedPosition = Zero]_vars

\* C5 as amended: the step into streaming replaces the side's mouse state
\* (rawPosition and accumulatedPosition) by a fresh one and leaves
\* pressed[side] as it was.
C5_ResetsMouseStateOnly ==
    [][\A type \in ControllerType :
          Succeeds(type) =>
              /\ mouseState'[type] = createMouseState
              /\ pressed' = pressed]_vars

\* A side streams again with a fresh mouse state and the button byte of
\* the earlier session
C5_Witness ==
    \E type \in ControllerType :
        /\ calls[type]["streaming"] >= 2
        /\ processed[type] = <<>>
        /\ mouseState[type] = createMouseState
        /\ pressed[type] # 0

\* C6: no step of a connect(side) call before streaming, the failing one
\* included, changes pressed or mouseState.
C6_FailureLeavesState ==
    [][\A type \in ControllerType :
          StepsWithoutStreaming(type) =>
              (pressed' = pressed /\ mouseState' = mouseState)]_vars

\* A call failed on a side that holds decoded state
C6_Witness ==
    \E type \in ControllerType :
        /\ calls[type]["streaming"] = 1
        /\ calls[type]["failed"] = 1
        /\ errorRef # "null"
        /\ pressed[type] # 0
        /\ mouseState[type].accumulatedPosition # Zero

\* C8 as stated: after a report whose buffer covers the side's button
\* offset, pressed[side] is the byte at that offset.
C8_AsStated ==
    (lastEvent.type \in ControllerType
        /\ InRange(lastEvent.dataView, controllerByteOffsetMap[lastEvent.type], 1))
    => pressed[lastEvent.type]
         = lastEvent.dataView[controllerByteOffsetMap[lastEvent.type] + 1]

\* C8 as amended: after a report whose buffer covers every offset the
\* listener reads (the counters at 16..19, read first, and the button
\* offset: 20 bytes), the listener has not thrown and pressed[side] is the
\* byte at the side's button offset.
C8_ButtonByteOfFullReport ==
    (lastEvent.type \in ControllerType /\ Len(lastEvent.dataView) >= 20)
    => /\ ~lastEvent.threw
       /\ pressed[lastEvent.type]
            = lastEvent.dataView[controllerByteOffsetMap[lastEvent.type] + 1]

\* A 20-byte L report with byte 6 = 0x0B replaced the 0x04 of the report
\* before it
C8_Witness ==
    /\ lastEvent.type = "L"
    /\ Len(lastEvent.dataView) = 20
    /\ lastEvent.dataView[7] = 11
    /\ processed["L"] = <<<<5, 65530>>, <<65530, 5>>>>
    /\ pressed["L"] = 11

Malformed(dataView) == Len(dataView) < 20

\* A listener of the side handles dataView in this step (the first two
\* conjuncts follow from Notify and are decided first)
Handles(type, dataView) ==
    /\ calls' = calls
    /\ lastEvent'.dataView = dataView
    /\ Notify(type, dataView)

\* C9: handling a report shorter than the offsets read throws, changes
\* none of pressed, rawPosition and accumulatedPosition, and leaves the
\* listener registered, so that a full report is still decoded after it.
C9_MalformedReportDropped ==
    [][\A type \in ControllerType : \A dataView \in Reports :
          (Malformed(dataView) /\ Handles(type, dataView)) =>
              /\ lastEvent'.threw
              /\ pressed' = pressed
              /\ mouseState' = mouseState
              /\ calls'[type]["streaming"] > 0
              /\ \E full \in Reports :
                    ~onCharacteristicValueChanged(mouseState', pressed', full, type).threw]_vars

\* A short report was dropped on a side that holds decoded state
C9_Witness ==
    /\ lastEvent.type \in ControllerType
    /\ lastEvent.threw
    /\ Len(lastEvent.dataView) = 19
    /\ processed[lastEvent.type] # <<>>
    /\ pressed[lastEvent.type] # 0
    /\ mouseState[lastEvent.type].rawPosition.x # getUint16(lastEvent.dataView, 16)

\* Decoded states the other side might hold
OtherSideStates ==
    {[mouse |-> createMouseState, pressed |-> 0],
     [mouse |-> [rawPosition |-> [x |-> 5, y |-> 65530],
                 accumulatedPosition |-> [x |-> -70000, y |-> 70000]],
      pressed |-> 255]}

\* C10: a step of connect(side) or of a listener of that side leaves the
\* other side's pressed and mouseState as they were, and what a listener
\* does to its own side does not depend on the other side's state.
C10_SideIsolation ==
    [][\A type \in ControllerType :
          LET other == Other(type)
          IN  /\ calls'[type] # calls[type] =>
                    /\ pressed'[other] = pressed[other]
                    /\ mouseState'[other] = mouseState[other]
              /\ \A dataView \in Reports :
                    Handles(type, dataView) =>
                        /\ pressed'[other] = pressed[other]
                        /\ mouseState'[other] = mouseState[other]
                        /\ \A o \in OtherSideStates :
                             LET r == onCharacteristicValueChanged(
                                         [mouseState EXCEPT ![other] = o.mouse],
                                         [pressed EXCEPT ![other] = o.pressed],
                                         dataView, type)
                             IN  /\ r.mouseState[type] = mouseState'[type]
                                 /\ r.pressed[type] = pressed'[type]
                                 /\ r.threw = lastEvent'.threw]_vars

\* Both sides stream and hold different decoded state
C10_Witness ==
    /\ calls["L"]["streaming"] > 0
    /\ calls["R"]["streaming"] > 0
    /\ processed["L"] # <<>>
    /\ processed["R"] # <<>>
    /\ pressed["L"] # 0
    /\ pressed["R"] # 0
    /\ pressed["L"] # pressed["R"]

----------------------------------------------------------------------------
(* C11: a step that ends a connect(type) call in its catch block stores a   *)
(* non-null error in errorRef and registers no listener; the number of     *)
(* listeners of a side changes only by the step that follows a resolved    *)
(* startNotifications(), and a call comes to await a step only from the    *)
(* step before it, so that a listener is registered only after the link,   *)
(* the service, both characteristics, the three writes and the             *)
(* subscription have succeeded.                                            *)

\* A call of connect(type) comes to await a step only by leaving the one before
EntersOnlyFromPrevious(type) ==
    \A k \in 2..Len(ConnectSteps) :
        calls'[type][ConnectSteps[k]] > calls[type][ConnectSteps[k]]
            => calls' = Move(type, ConnectSteps[k - 1], ConnectSteps[k])

\* A call of connect(type) ends in the catch block
Fails(type) ==
    calls'[type]["failed"] # calls[type]["failed"]

C11_FailureRegistersNoListener ==
    [][\A type \in ControllerType :
          /\ Fails(type) =>
                /\ \E at \in Positions \ {"streaming", "failed"} :
                       calls' = Move(type, at, "failed")
                /\ errorRef' # "null"
                /\ calls'[type]["streaming"] = calls[type]["streaming"]
          /\ calls'[type]["streaming"] # calls[type]["streaming"] => Succeeds(type)
          /\ EntersOnlyFromPrevious(type)]_vars

\* one call, failed after its three writes, left an error and no listener
C11_Witness ==
    \E type \in ControllerType :
        /\ NumCalls = 1
        /\ calls[type]["failed"] = 1
        /\ lastWrite = IndicatorCommand("writeIndicatorB")
        /\ errorRef = "NetworkError"
        /\ calls[type]["streaming"] = 0

----------------------------------------------------------------------------
(* C12: within the calls of connect(type) the LED command, with the value   *)
(* taken from the generator as its byte 8, is written when the write       *)
(* characteristic has resolved; indicator command A is written only when   *)
(* the sleep that follows the resolved LED write has ended, indicator      *)
(* command B only when the sleep that follows the resolved write of A has  *)
(* ended; the input characteristic, the subscription and the reset of the  *)
(* side's mouse state come only after the write of B has resolved.         *)

C12_CommandOrder ==
    [][\A type \in ControllerType :
          /\ EntersOnlyFromPrevious(type)
          /\ calls' = Move(type, "getCharacteristicWrite", "writeLED") =>
                /\ lastWrite' = LEDCommand(ledValues'[Len(ledValues')])
                /\ Len(ledValues') = Len(ledValues) + 1
          /\ calls' = Move(type, "sleep1", "writeIndicatorA") =>
                lastWrite' = <<12, 145, 1, 2, 0, 4, 0, 0, 255, 0, 0, 0>>
          /\ calls' = Move(type, "sleep2", "writeIndicatorB") =>
                lastWrite' = <<12, 145, 1, 4, 0, 4, 0, 0, 255, 0, 0, 0>>
          /\ lastWrite' # lastWrite =>
                \E at \in {"writeLED", "writeIndicatorA", "writeIndicatorB"} :
                    calls'[type][at] > calls[type][at]
                    \/ calls'[Other(type)][at] > calls[Other(type)][at]
          /\ (mouseState'[type] = createMouseState /\ mouseState[type] # createMouseState)
                => Succeeds(type)]_vars

\* a call went through the three writes in order and is streaming
C12_Witness ==
    \E type \in ControllerType :
        /\ NumCalls = 1
        /\ calls[type]["streaming"] = 1
        /\ ledValues = <<1>>
        /\ lastWrite = <<12, 145, 1, 4, 0, 4, 0, 0, 255, 0, 0, 0>>

----------------------------------------------------------------------------
(* C13, as stated: once no call of connect() is suspended, next() has been  *)
(* called on ledPatternGenerator as many times as calls have reached       *)
(* "streaming".                                                            *)

Suspended(type) == CountAt(type, Positions \ {"streaming", "failed"})

C13_AsStated ==
    (Suspended("L") + Suspended("R") = 0)
        => Len(ledValues) = calls["L"]["streaming"] + calls["R"]["streaming"]

(* C13, as the code has it: next() is called exactly once by each call of   *)
(* connect(), of either side, at the step that builds the LED command,     *)
(* and at no other step; the generator and the record of its values        *)
(* change together; so the number of next() calls is the number of calls   *)
(* that got as far as the LED write, those that failed later included.     *)

C13_CursorAdvancesAtLEDCommand ==
    [][/\ (ledValues' # ledValues \/ ledPatternGenerator' # ledPatternGenerator) =>
            /\ \E type \in ControllerType :
                   calls' = Move(type, "getCharacteristicWrite", "writeLED")
            /\ ledPatternGenerator' = generatorNext(ledPatternGenerator).gen
       /\ \A type \in ControllerType :
            calls' = Move(type, "getCharacteristicWrite", "writeLED") =>
                /\ Len(ledValues') = Len(ledValues) + 1
                /\ ledPatternGenerator'.at = (ledPatternGenerator.at % Len(LEDPattern)) + 1]_vars

\* a call failed after its LED command: the cursor moved, nothing streams
C13_Witness ==
    /\ Suspended("L") + Suspended("R") = 0
    /\ NumCalls = 1
    /\ calls["L"]["failed"] = 1
    /\ Len(ledValues) = 1
    /\ ledPatternGenerator.at = 1
    /\ lastWrite = LEDCommand(1)

----------------------------------------------------------------------------
(* C14: in every interleaving of the calls of connect() of the two sides,   *)
(* the i-th LED command built carries element ((i - 1) mod 8) of the       *)
(* pattern, the last LED command written carries the value last taken,     *)
(* and two LED commands built one after the other carry different values.  *)

C14_LEDAssignment ==
    /\ \A i \in 1..Len(ledValues) :
          /\ ledValues[i] = LEDPattern[((i - 1) % 8) + 1]
          /\ i > 1 => ledValues[i] # ledValues[i - 1]
    /\ ledPatternGenerator.at = (IF Len(ledValues) = 0 THEN 0
                                 ELSE ((Len(ledValues) - 1) % 8) + 1)
    /\ (lastWrite # <<>> /\ lastWrite[1] = 9) =>
          /\ Len(ledValues) > 0
          /\ lastWrite = LEDCommand(ledValues[Len(ledValues)])

\* both sides await their LED write at once, each with its own value
C14_Witness ==
    /\ calls["L"]["writeLED"] = 1
    /\ calls["R"]["writeLED"] = 1
    /\ ledValues = <<1, 3>>
    /\ lastWrite = LEDCommand(3)

----------------------------------------------------------------------------
(* C15, as stated: a connect(type) call whose requestDevice() is rejected   *)
(* because the chooser was cancelled leaves errorRef as it was.            *)

C15_AsStated ==
    [][\A type \in ControllerType, error \in RequestDeviceRejections, isBluefy \in BOOLEAN :
          RequestDeviceRejected(type, error, isBluefy) => errorRef' = errorRef]_vars

(* C15, as the code has it: the cancelled chooser ends the call in the      *)
(* catch block like any other failure: errorRef holds the rejection, or in *)
(* Bluefy, where the rejection is the number 2, an Error that names the    *)
(* cancellation, and errorMessage is not null.                             *)

C15_CancellationIsShown ==
    [][\A type \in ControllerType, error \in RequestDeviceRejections, isBluefy \in BOOLEAN :
          RequestDeviceRejected(type, error, isBluefy) =>
              /\ calls' = Move(type, "requestDevice", "failed")
              /\ errorRef' =
                    (IF isBluefy /\ error = "2"
                     THEN "Error: User cancelled the requestDevice() chooser in Bluefy app."
                     ELSE error)
              /\ errorMessage(errorRef') # "null"
              /\ errorMessage(errorRef') =
                    (IF error = "2"
                     THEN (IF isBluefy
                           THEN "User cancelled the requestDevice() chooser in Bluefy app."
                           ELSE "An unknown error occurred")
                     ELSE error)]_vars

\* a streaming side, then a cancelled chooser in Bluefy: the error is shown
C15_Witness ==
    \E type \in ControllerType :
        /\ calls[type]["failed"] = 1
        /\ calls[Other(type)]["streaming"] = 1
        /\ NumCalls = 2
        /\ ledValues = <<1>>
        /\ errorRef = "Error: User cancelled the requestDevice() chooser in Bluefy app."

----------------------------------------------------------------------------
(* C16, as stated: at any time at most one registered listener feeds        *)
(* pressed[type] and mouseState[type]. Every call of connect(type) that    *)
(* reaches "streaming" has registered one, and none is ever removed.       *)

C16_AsStated ==
    \A type \in ControllerType : calls[type]["streaming"] <= 1

----------------------------------------------------------------------------
(* C17: the first report a side decodes after a call of connect(type) has   *)
(* reached "streaming" finds the side's mouse state as createMouseState    *)
(* left it, and its deltas are those of its raw counters against (0, 0):   *)
(* no raw value an earlier session stored enters them.                     *)

C17_FirstDeltaAgainstReset ==
    [][\A type \in ControllerType, dataView \in Reports :
          (Handles(type, dataView) /\ ~Malformed(dataView) /\ processed[type] = <<>>) =>
              /\ mouseState[type] = createMouseState
              /\ mouseState'[type].rawPosition =
                    [x |-> getUint16(dataView, 16), y |-> getUint16(dataView, 18)]
              /\ mouseState'[type].accumulatedPosition =
                    [x |-> calculateDeltaWithWraparound(getUint16(dataView, 16), 0),
                     y |-> calculateDeltaWithWraparound(getUint16(dataView, 18), 0)]]_vars

\* a side connected twice has decoded its first report since the second reset
C17_Witness ==
    \E type \in ControllerType :
        /\ calls[type]["streaming"] = 2
        /\ processed[type] = <<<<65530, 5>>>>
        /\ mouseState[type].rawPosition = [x |-> 65530, y |-> 5]
        /\ mouseState[type].accumulatedPosition = [x |-> -6, y |-> 5]

----------------------------------------------------------------------------
(* C18: when every awaited operation settles except device.gatt.connect()   *)
(* of the left side, which may stay pending for ever, every other call of  *)
(* connect(), of either side, comes to its end, "streaming" or "failed",   *)
(* and stays there: from some point on no call is suspended anywhere but   *)
(* at the hung operation. The right side is not held up by the left:       *)
(* C18_Witness is a state where it streams and decodes while the left      *)
(* call is still pending.                                                  *)

C18_EveryOtherCallEnds ==
    <>[](\A type \in ControllerType, k \in 1..Len(ConnectSteps) :
            <<type, ConnectSteps[k]>> # HungOperation =>
                calls[type][ConnectSteps[k]] = 0)

\* the left call hangs in gatt.connect(); the right side streams and decodes
C18_Witness ==
    /\ calls["L"]["gattConnect"] = 1
    /\ calls["R"]["streaming"] = 1
    /\ NumCalls = 2
    /\ Len(processed["R"]) >= 1
    /\ pressed["R"] # 0
    /\ errorRef = "null"

----------------------------------------------------------------------------
(* C19: for 16-bit current and previous whose signed remainder d nearest    *)
(* zero of (current - previous) mod 65536 has |d| <= 15000,                *)
(* calculateDeltaWithWraparound returns d, whether or not the counter      *)
(* wrapped between the two values.                                         *)

\* The remainder of n modulo 65536 that lies in -32768..32767
SignedRemainder(n) == ((n + 32768) % 65536) - 32768

C19_AgreesWithModularReference ==
    (unit.applied /\ Abs(SignedRemainder(unit.current - unit.previous)) <= 15000)
        => unit.delta = SignedRemainder(unit.current - unit.previous)

\* a wrap downwards through zero: the naive difference is 65525, d is -11
C19_Witness ==
    /\ unit.applied
    /\ unit.current = 65530
    /\ unit.previous = 5
    /\ SignedRemainder(unit.current - unit.previous) = -11
    /\ unit.delta = -11

----------------------------------------------------------------------------
(* C20: in every reachable state, for each side and axis, rawPosition is    *)
(* accumulatedPosition modulo 65536.                                       *)

C20_RawIsAccumulatedMod65536 ==
    \A type \in ControllerType :
        /\ mouseState[type].rawPosition.x = mouseState[type].accumulatedPosition.x % 65536
        /\ mouseState[type].rawPosition.y = mouseState[type].accumulatedPosition.y % 65536

\* two reports decoded, the second across the wrap: -6 accumulated, 65530 raw
C20_Witness ==
    \E type \in ControllerType :
        /\ Len(processed[type]) = 2
        /\ mouseState[type].accumulatedPosition = [x |-> 5, y |-> -6]
        /\ mouseState[type].rawPosition = [x |-> 5, y |-> 65530]

----------------------------------------------------------------------------
(* C21: errorRef is one slot for both sides and is written only by the      *)
(* step that ends a call of connect(): that step leaves it null when the   *)
(* call reached "streaming", whatever error an earlier call of either side *)
(* had left, and leaves the error the call was ended with otherwise. A     *)
(* step that ends no call, the handling of a report among them, leaves     *)
(* errorRef as it was.                                                     *)

\* What a call of connect() that fails while awaiting a step is ended with
FailuresAt(at) ==
    IF at = "requestDevice"
    THEN {requestDeviceCatch(error, isBluefy) :
            error \in RequestDeviceRejections, isBluefy \in BOOLEAN}
         \cup {"Error: Device does not support GATT"}
    ELSE {"NetworkError"}

C21_ErrorOfLastCompletedCall ==
    [][/\ \A type \in ControllerType :
            /\ Succeeds(type) => errorRef' = "null"
            /\ \A at \in Positions \ {"streaming", "failed"} :
                  calls' = Move(type, at, "failed") =>
                      (errorRef' \in FailuresAt(at) /\ errorRef' # "null")
       /\ errorRef' # errorRef =>
            \E type \in ControllerType : Succeeds(type) \/ Fails(type)
       /\ lastEvent' # lastEvent => errorRef' = errorRef]_vars

\* the left call failed, the right call then reached "streaming" and has
\* decoded a report: the left side's error is gone
C21_Witness ==
    /\ NumCalls = 2
    /\ calls["L"]["failed"] = 1
    /\ calls["R"]["streaming"] = 1
    /\ Len(processed["R"]) >= 1
    /\ errorRef = "null"

====
